---- MODULE Spec2Model ----
(***************************************************************************)
(* Model of the Wikipedia link-graph crawler (populate_db.py) and of the   *)
(* /graph endpoint (main.py) of neo4j-wikipedia.                           *)
(*                                                                         *)
(* The graph store is a list of Page nodes (a node's id is its position in *)
(* the list) and a bag of relationships; Cypher's MERGE is modelled by     *)
(* what it does: match an existing node/relationship or create one.        *)
(***************************************************************************)
EXTENDS Integers, Sequences, FiniteSets, Bags, TLC

(* ------------------------------ bounds -------------------------------- *)
\* the titles the page source knows, in sorted() order
TitleSeq == <<"a", "b">>
Titles == {TitleSeq[i] : i \in 1..Len(TitleSeq)}
\* longest start_pages list a run is given
MaxSeeds == 2
\* largest max_depth a run is given
MaxDepthBound == 2

Langs == <<"en", "pt">>
\* the depth at which pending pages are queued on resumption
PendingDepth == 2
\* p.url IS NULL
Null == <<>>

VARIABLES
    nodes,       \* store: sequence of Page nodes [title, url]; id = index
    edges,       \* store: bag of relationships [type, from, to] over node ids
    pc,          \* "idle" (no run in progress) or "running" (inside the while loop)
    queue,       \* populate_database: queue, a list of <<title, depth>>
    visited,     \* populate_database: visited
    max_depth,   \* populate_database: max_depth of the current run
    pendingAtStart,   \* history: titles with url unset when the run started
    resolvedAtStart,  \* history: titles with url set when the run started
    fetchCount,       \* history: per title, iterations of this run that fetched it
    mergeCount,       \* history: per title, iterations of this run that merged it as canonical title
    last,             \* history: what the last loop iteration did
    everQueued,       \* history: the titles that have been in the queue in this run
    call,             \* the call a specification draws in Init: the query record and limit
                      \* of get_graph_data, or the arguments and page source of a crawl
    resp              \* the response of the /graph request served in the last step, if any

histVars == <<pendingAtStart, resolvedAtStart, fetchCount, mergeCount, last, everQueued>>
vars == <<nodes, edges, pc, queue, visited, max_depth,
          pendingAtStart, resolvedAtStart, fetchCount, mergeCount, last, everQueued,
          call, resp>>

(* ------------------------------ helpers ------------------------------- *)
Range(s) == {s[i] : i \in 1..Len(s)}

Min(x, y) == IF x < y THEN x ELSE y
Max(x, y) == IF x > y THEN x ELSE y

\* all sequences without repetition that enumerate the set S
RECURSIVE Orderings(_)
Orderings(S) ==
    IF S = {} THEN {<<>>}
    ELSE UNION {{<<x>> \o r : r \in Orderings(S \ {x})} : x \in S}

\* sorted(found_links): the titles of S in ascending order
SortedLinks(S) == SelectSeq(TitleSeq, LAMBDA t : t \in S)

\* all lists over Titles of length 0..n
RECURSIVE SeqsUpTo(_)
SeqsUpTo(n) ==
    IF n = 0 THEN {<<>>}
    ELSE LET shorter == SeqsUpTo(n - 1)
         IN shorter \cup {s \o <<t>> : s \in {q \in shorter : Len(q) = n - 1}, t \in Titles}

(* ------------------------------- store -------------------------------- *)
\* ids of the Page nodes whose title is t: MATCH (p:Page {title: t})
MatchPage(ns, t) == {i \in 1..Len(ns) : ns[i].title = t}

\* mutant of MergePage: CREATE instead of MERGE
MergePageCreate(ns, t) == Append(ns, [title |-> t, url |-> Null])

\* MERGE (p:Page {title: t}): the nodes after the merge (one is created when none matches)
MergePage(ns, t) ==
    IF MatchPage(ns, t) # {} THEN ns
    ELSE Append(ns, [title |-> t, url |-> Null])

\* mutant of MergePageSetUrl: MERGE (p:Page {title: t}) without the SET
MergePageKeepUrl(ns, t, u) == MergePage(ns, t)

\* MERGE (p:Page {title: t}) SET p.url = u
MergePageSetUrl(ns, t, u) ==
    LET merged == MergePage(ns, t)
    IN [i \in 1..Len(merged) |->
           IF merged[i].title = t THEN [merged[i] EXCEPT !.url = u] ELSE merged[i]]

\* MERGE (a)-[:type]->(b) for one bound pair of nodes
MergeRel(es, type, a, b) ==
    LET r == [type |-> type, from |-> a, to |-> b]
    IN IF BagIn(r, es) THEN es ELSE es (+) SetToBag({r})

\* MERGE (a)-[:type]->(b) for every pair of the bound rows
RECURSIVE MergeRels(_, _, _)
MergeRels(es, type, pairs) ==
    IF pairs = {} THEN es
    ELSE LET p == CHOOSE q \in pairs : TRUE
         IN MergeRels(MergeRel(es, type, p[1], p[2]), type, pairs \ {p})

\* mutant of LinkPages: MERGE (b:Page {title: dst}) SET b.url = null
LinkPagesResetUrl(store, type, src, dst) ==
    IF MatchPage(store.nodes, src) = {} THEN store
    ELSE LET ns == MergePageSetUrl(store.nodes, dst, Null)
         IN [nodes |-> ns,
             edges |-> MergeRels(store.edges, type,
                                 MatchPage(ns, src) \X MatchPage(ns, dst))]

\* MATCH (a:Page {title: src}) MERGE (b:Page {title: dst}) MERGE (a)-[:type]->(b)
\* no row is bound, and nothing is written, when src matches no node
LinkPages(store, type, src, dst) ==
    IF MatchPage(store.nodes, src) = {} THEN store
    ELSE LET ns == MergePage(store.nodes, dst)
         IN [nodes |-> ns,
             edges |-> MergeRels(store.edges, type,
                                 MatchPage(ns, src) \X MatchPage(ns, dst))]

\* MATCH (n:Page) WHERE n.url IS NOT NULL RETURN n.title, as a set
ResolvedTitles(ns) == {ns[i].title : i \in {j \in 1..Len(ns) : ns[j].url # Null}}
\* MATCH (n:Page) WHERE n.url IS NULL RETURN n.title, as a set
PendingTitles(ns) == {ns[i].title : i \in {j \in 1..Len(ns) : ns[j].url = Null}}

(* ---------------------------- page source ----------------------------- *)
\* what one request to <lang>.wikipedia.org can come back with
HttpResponses ==
    {[kind |-> "error"], [kind |-> "exception"], [kind |-> "unrequested"]} \cup
    {[kind |-> "page", title |-> t, links |-> L] : t \in Titles, L \in SUBSET Titles}

\* the responses of one call of get_in_text_internal_links, one per language tried:
\* the loop returns at the first page, so a request is made exactly when no page
\* came before it
FetchResponses ==
    LET answered == {r \in [1..Len(Langs) -> HttpResponses] :
                        \A j \in 1..Len(Langs) :
                            r[j].kind = "unrequested"
                               <=> \E i \in 1..(j - 1) : r[i].kind = "page"}
    IN {r : r \in answered}

NotFound == [found |-> FALSE]

\* get_in_text_internal_links: the first language whose request yields a page wins,
\* ValueError (NotFound) when neither does
get_in_text_internal_links(responses) ==
    LET ok == {i \in 1..Len(Langs) : responses[i].kind = "page"}
    IN IF ok = {} THEN NotFound
       ELSE LET i == CHOOSE j \in ok : \A k \in ok : j <= k
            IN [found |-> TRUE,
                real_title |-> responses[i].title,
                links |-> SortedLinks(responses[i].links),
                full_url |-> <<Langs[i], responses[i].title>>]

(* ------------------------------ crawler ------------------------------- *)
NoIteration == [op |-> "none"]
\* no /graph request was served in the last step
NoResponse == [status |-> 0]
\* get_graph_data is not being applied to a drawn query record
NoCall == [kind |-> "none"]

\* mutant of ProcessLinks: only a link that is enqueued gets its node and edge
RECURSIVE ProcessLinksAdmittedOnly(_, _, _, _, _)
ProcessLinksAdmittedOnly(st, links, real_title, depth, vis) ==
    IF links = <<>> THEN st
    ELSE LET link == Head(links)
             q == IF link \notin vis THEN Append(st.queue, <<link, depth + 1>>)
                  ELSE st.queue
             s == IF link \notin vis
                  THEN LinkPages(st.store, "LINKS_TO", real_title, link)
                  ELSE st.store
         IN ProcessLinksAdmittedOnly([queue |-> q, store |-> s], Tail(links),
                                     real_title, depth, vis)

\* mutant of ProcessLinks: a link is enqueued at the depth of its page
RECURSIVE ProcessLinksSameDepth(_, _, _, _, _)
ProcessLinksSameDepth(st, links, real_title, depth, vis) ==
    IF links = <<>> THEN st
    ELSE LET link == Head(links)
             q == IF link \notin vis THEN Append(st.queue, <<link, depth>>)
                  ELSE st.queue
             s == LinkPages(st.store, "LINKS_TO", real_title, link)
         IN ProcessLinksSameDepth([queue |-> q, store |-> s], Tail(links),
                                  real_title, depth, vis)

\* lines 127-139: the for loop over links; st = [queue, store]
RECURSIVE ProcessLinks(_, _, _, _, _)
ProcessLinks(st, links, real_title, depth, vis) ==
    IF links = <<>> THEN st
    ELSE LET link == Head(links)
             q == IF link \notin vis THEN Append(st.queue, <<link, depth + 1>>)
                  ELSE st.queue
             s == LinkPages(st.store, "LINKS_TO", real_title, link)
         IN ProcessLinks([queue |-> q, store |-> s], Tail(links), real_title, depth, vis)

\* mutant of InitialVisited: the resolved pages are not looked up
InitialVisitedEmpty(ns) == {}

\* lines 72-78: visited, seeded with the titles of the resolved pages
InitialVisited(ns) == ResolvedTitles(ns)

\* mutant of Skipped: the depth is not compared with max_depth
SkippedVisitedOnly(page_title, depth) == page_title \in visited

\* mutant of Skipped: the visited set is not consulted
SkippedDepthOnly(page_title, depth) == depth > max_depth

\* line 91: the popped entry is not fetched
Skipped(page_title, depth) == page_title \in visited \/ depth > max_depth

\* lines 70-86: a run starts; visited and queue are seeded from the store
Start(start_pages, md, pendingOrder) ==
    /\ pc = "idle"
    /\ pc' = "running"
    /\ max_depth' = md
    /\ visited' = InitialVisited(nodes)
    /\ queue' = [i \in 1..Len(start_pages) |-> <<start_pages[i], 0>>]
                \o [i \in 1..Len(pendingOrder) |-> <<pendingOrder[i], PendingDepth>>]
    /\ pendingAtStart' = PendingTitles(nodes)
    /\ resolvedAtStart' = ResolvedTitles(nodes)
    /\ fetchCount' = [t \in Titles |-> 0]
    /\ mergeCount' = [t \in Titles |-> 0]
    /\ last' = NoIteration
    /\ everQueued' = Range(start_pages) \cup Range(pendingOrder)
    /\ resp' = NoResponse
    /\ UNCHANGED <<nodes, edges, call>>

\* mutant of Skip: the entry is read with queue[0] and stays in the queue
SkipNoPop ==
    /\ pc = "running"
    /\ queue # <<>>
    /\ LET page_title == Head(queue)[1]
           depth == Head(queue)[2]
       IN /\ Skipped(page_title, depth)
          /\ queue' = queue
          /\ last' = [op |-> "skip", title |-> page_title, depth |-> depth]
    /\ resp' = NoResponse
    /\ UNCHANGED <<nodes, edges, visited, max_depth, pc, call, everQueued,
                   pendingAtStart, resolvedAtStart, fetchCount, mergeCount>>

\* lines 89-92: the popped entry is skipped without a fetch
Skip ==
    /\ pc = "running"
    /\ queue # <<>>
    /\ LET page_title == Head(queue)[1]
           depth == Head(queue)[2]
       IN /\ Skipped(page_title, depth)
          /\ queue' = Tail(queue)
          /\ last' = [op |-> "skip", title |-> page_title, depth |-> depth]
    /\ resp' = NoResponse
    /\ UNCHANGED <<nodes, edges, visited, max_depth, pc, call, everQueued,
                   pendingAtStart, resolvedAtStart, fetchCount, mergeCount>>

\* mutant of FetchFailed: the requested title is marked visited before the fetch
FetchFailedMarksVisited(responses) ==
    /\ pc = "running"
    /\ queue # <<>>
    /\ LET page_title == Head(queue)[1]
           depth == Head(queue)[2]
       IN /\ ~Skipped(page_title, depth)
          /\ get_in_text_internal_links(responses) = NotFound
          /\ queue' = Tail(queue)
          /\ visited' = visited \cup {page_title}
          /\ fetchCount' = [fetchCount EXCEPT ![page_title] = @ + 1]
          /\ last' = [op |-> "failed", title |-> page_title, depth |-> depth]
    /\ resp' = NoResponse
    /\ UNCHANGED <<nodes, edges, max_depth, pc, call, everQueued,
                   pendingAtStart, resolvedAtStart, mergeCount>>

\* lines 94-98: the fetch raises ValueError; the iteration ends
FetchFailed(responses) ==
    /\ pc = "running"
    /\ queue # <<>>
    /\ LET page_title == Head(queue)[1]
           depth == Head(queue)[2]
       IN /\ ~Skipped(page_title, depth)
          /\ get_in_text_internal_links(responses) = NotFound
          /\ queue' = Tail(queue)
          /\ fetchCount' = [fetchCount EXCEPT ![page_title] = @ + 1]
          /\ last' = [op |-> "failed", title |-> page_title, depth |-> depth]
    /\ resp' = NoResponse
    /\ UNCHANGED <<nodes, edges, visited, max_depth, pc, call, everQueued,
                   pendingAtStart, resolvedAtStart, mergeCount>>

\* lines 94-139: the fetch succeeds; the page, its alias and its links are merged
Process(responses) ==
    /\ pc = "running"
    /\ queue # <<>>
    /\ LET page_title == Head(queue)[1]
           depth == Head(queue)[2]
           page == get_in_text_internal_links(responses)
       IN /\ ~Skipped(page_title, depth)
          /\ page # NotFound
          /\ LET vis == visited \cup {page.real_title}
                 n1 == MergePageSetUrl(nodes, page.real_title, page.full_url)
                 n2 == IF page_title # page.real_title
                       THEN MergePageSetUrl(n1, page_title, page.full_url)
                       ELSE n1
                 s2 == IF page_title # page.real_title
                       THEN LinkPages([nodes |-> n2, edges |-> edges], "ALIAS",
                                      page_title, page.real_title)
                       ELSE [nodes |-> n2, edges |-> edges]
             IN /\ last' = [op |-> "processed", title |-> page_title, depth |-> depth,
                            real_title |-> page.real_title, links |-> page.links]
                /\ visited' = vis
                /\ fetchCount' = [fetchCount EXCEPT ![page_title] = @ + 1]
                /\ mergeCount' = [mergeCount EXCEPT ![page.real_title] = @ + 1]
                /\ everQueued' = everQueued \cup (Range(page.links) \ vis)
                /\ \E st \in {ProcessLinks([queue |-> Tail(queue), store |-> s2],
                                            page.links, page.real_title, depth, vis)} :
                      /\ queue' = st.queue
                      /\ nodes' = st.store.nodes
                      /\ edges' = st.store.edges
    /\ resp' = NoResponse
    /\ UNCHANGED <<max_depth, pc, call, pendingAtStart, resolvedAtStart>>

\* line 88: the queue is empty, the while loop ends and populate_database returns;
\* its locals, and the history of the run, are gone
Finish ==
    /\ pc = "running"
    /\ queue = <<>>
    /\ pc' = "idle"
    /\ visited' = {}
    /\ max_depth' = 0
    /\ pendingAtStart' = {}
    /\ resolvedAtStart' = {}
    /\ fetchCount' = [t \in Titles |-> 0]
    /\ mergeCount' = [t \in Titles |-> 0]
    /\ last' = NoIteration
    /\ everQueued' = {}
    /\ resp' = NoResponse
    /\ UNCHANGED <<nodes, edges, queue, call>>

(* --------------------------- /graph endpoint -------------------------- *)
\* request.args.get("limit", 50)
DefaultLimit == 50
\* line 56: limit = max(10, min(200, limit))
MinLimit == 10
MaxLimit == 200
ClampLimit(limit) == Max(MinLimit, Min(MaxLimit, limit))
\* mutant of outgoing_limit: the half is rounded up past the middle
outgoing_limit_plus_one(limit) == Min(limit \div 2 + 1, limit - 1)
\* line 59
outgoing_limit(limit) == Min(limit \div 2, limit - 1)
\* mutant of incoming_limit: no slot is reserved for the main node
incoming_limit_no_center(limit) == limit - outgoing_limit(limit)
\* line 60
incoming_limit(limit) == limit - outgoing_limit(limit) - 1

\* a None entry of a candidate list
None == [none |-> TRUE]
\* the node object the driver returns for the store's node i
NodeOf(ns, i) == [id |-> i, title |-> ns[i].title]

\* the distinct end nodes of p's outgoing / incoming LINKS_TO relationships
OutgoingOf(es, p) ==
    {r.to : r \in {q \in BagToSet(es) : q.type = "LINKS_TO" /\ q.from = p}}
IncomingOf(es, p) ==
    {r.from : r \in {q \in BagToSet(es) : q.type = "LINKS_TO" /\ q.to = p}}

\* the ids of S in ascending and in descending order
RECURSIVE Ascending(_)
Ascending(S) ==
    IF S = {} THEN <<>>
    ELSE LET least == CHOOSE x \in S : \A y \in S : x <= y
         IN <<least>> \o Ascending(S \ {least})
Descending(S) ==
    LET up == Ascending(S) IN [i \in 1..Len(up) |-> up[Len(up) + 1 - i]]

\* largest neighbour set of which every order is tried
MaxPermuted == 3
\* the orders collect(DISTINCT x) may list the nodes S in: the query fixes none.
\* Every order of a small set; of a larger one, the two orders by id.
NeighbourOrders(S) ==
    IF Cardinality(S) <= MaxPermuted THEN Orderings(S)
    ELSE {Ascending(S), Descending(S)}

\* list[..n]
Prefix(list, n) == SubSeq(list, 1, Min(n, Len(list)))

\* mutant of GraphQuery: only resolved pages match as the center
GraphQueryResolvedOnly(ns, es, page_title, ol, il) ==
    UNION {{[p |-> NodeOf(ns, p),
             outgoing_links |-> Prefix([i \in 1..Len(o) |-> NodeOf(ns, o[i])], ol),
             incoming_links |-> Prefix([i \in 1..Len(n) |-> NodeOf(ns, n[i])], il)] :
               o \in NeighbourOrders(OutgoingOf(es, p)),
               n \in NeighbourOrders(IncomingOf(es, p))} :
           p \in {q \in MatchPage(ns, page_title) : ns[q].url # Null}}

\* lines 62-70: the records the query yields; collect(DISTINCT x) drops nulls and
\* repetitions and fixes no order, so every order of the neighbours is a possible record
GraphQuery(ns, es, page_title, ol, il) ==
    UNION {{[p |-> NodeOf(ns, p),
             outgoing_links |-> Prefix([i \in 1..Len(o) |-> NodeOf(ns, o[i])], ol),
             incoming_links |-> Prefix([i \in 1..Len(n) |-> NodeOf(ns, n[i])], il)] :
               o \in NeighbourOrders(OutgoingOf(es, p)),
               n \in NeighbourOrders(IncomingOf(es, p))} :
           p \in MatchPage(ns, page_title)}

\* mutant of AddNeighbours: a node is appended without looking it up in node_ids
RECURSIVE AddNeighboursNoDedup(_, _, _, _, _)
AddNeighboursNoDedup(g, list, main_id, group, outgoing) ==
    IF list = <<>> THEN g
    ELSE LET node == Head(list)
             ns == IF node # None
                   THEN Append(g.nodes, [id |-> node.id, label |-> node.title, group |-> group])
                   ELSE g.nodes
             ids == IF node # None THEN g.node_ids \cup {node.id} ELSE g.node_ids
             es == IF node # None
                   THEN Append(g.edges, IF outgoing THEN [from |-> main_id, to |-> node.id]
                                        ELSE [from |-> node.id, to |-> main_id])
                   ELSE g.edges
         IN AddNeighboursNoDedup([nodes |-> ns, edges |-> es, node_ids |-> ids],
                                 Tail(list), main_id, group, outgoing)

\* lines 80-91: one of the two for loops; g = [nodes, edges, node_ids]
RECURSIVE AddNeighbours(_, _, _, _, _)
AddNeighbours(g, list, main_id, group, outgoing) ==
    IF list = <<>> THEN g
    ELSE LET node == Head(list)
             added == node # None /\ node.id \notin g.node_ids
             ns == IF added
                   THEN Append(g.nodes, [id |-> node.id, label |-> node.title, group |-> group])
                   ELSE g.nodes
             ids == IF added THEN g.node_ids \cup {node.id} ELSE g.node_ids
             es == IF node # None
                   THEN Append(g.edges, IF outgoing THEN [from |-> main_id, to |-> node.id]
                                        ELSE [from |-> node.id, to |-> main_id])
                   ELSE g.edges
         IN AddNeighbours([nodes |-> ns, edges |-> es, node_ids |-> ids],
                          Tail(list), main_id, group, outgoing)

\* mutant of TruncateGraph: the nodes are truncated, the edges are kept
TruncateGraphNodesOnly(g, limit) ==
    IF Len(g.nodes) > limit
    THEN LET ns == SubSeq(g.nodes, 1, limit)
         IN [nodes |-> ns, node_ids |-> {ns[i].id : i \in 1..Len(ns)}, edges |-> g.edges]
    ELSE g

\* lines 94-97: truncate the nodes to the limit, then drop the edges that lost an endpoint
TruncateGraph(g, limit) ==
    IF Len(g.nodes) > limit
    THEN LET ns == SubSeq(g.nodes, 1, limit)
             ids == {ns[i].id : i \in 1..Len(ns)}
         IN [nodes |-> ns, node_ids |-> ids,
             edges |-> SelectSeq(g.edges, LAMBDA e : e.from \in ids /\ e.to \in ids)]
    ELSE g

\* lines 73-99: the nodes and edges built from the query's record; limit is the clamped limit
AssembleGraph(result, limit) ==
    LET main_node == result.p
        g0 == [nodes |-> <<[id |-> main_node.id, label |-> main_node.title, group |-> 1]>>,
               edges |-> <<>>, node_ids |-> {main_node.id}]
        g1 == AddNeighbours(g0, result.outgoing_links, main_node.id, 2, TRUE)
        g2 == AddNeighbours(g1, result.incoming_links, main_node.id, 3, FALSE)
        g3 == TruncateGraph(g2, limit)
    IN [nodes |-> g3.nodes, edges |-> g3.edges]

\* lines 56-60 and 73-99: the 200 response for the query's record
GraphPayload(result, requested) ==
    LET limit == ClampLimit(requested)
        g == AssembleGraph(result, limit)
    IN [status |-> 200, limit |-> limit,
        outgoing_limit |-> outgoing_limit(limit), incoming_limit |-> incoming_limit(limit),
        nodes |-> g.nodes, edges |-> g.edges]

\* mutant of GraphResponses: a missing page yields an empty graph
GraphResponsesEmptyGraph(ns, es, page, requested) ==
    IF page = "" THEN {[status |-> 400]}
    ELSE LET limit == ClampLimit(requested)
             records == GraphQuery(ns, es, page, outgoing_limit(limit), incoming_limit(limit))
         IN IF records = {}
            THEN {[status |-> 200, limit |-> limit,
                   outgoing_limit |-> outgoing_limit(limit),
                   incoming_limit |-> incoming_limit(limit),
                   nodes |-> <<>>, edges |-> <<>>]}
            ELSE {GraphPayload(result, requested) : result \in records}

\* lines 50-99: the responses GET /graph?page=<page>&limit=<requested> can yield on
\* the store (ns, es), with the driver connected
GraphResponses(ns, es, page, requested) ==
    IF page = "" THEN {[status |-> 400]}
    ELSE LET limit == ClampLimit(requested)
             records == GraphQuery(ns, es, page, outgoing_limit(limit), incoming_limit(limit))
         IN IF records = {} THEN {[status |-> 404]}
            ELSE {GraphPayload(result, requested) : result \in records}

\* lines 46-99: one /graph request. The web application only reads the store, and
\* every store a crawl passes through is also the store of an idle crawler (a run
\* whose remaining fetches all fail ends with it), so requests are served between runs.
get_graph_data(page, requested) ==
    /\ call = NoCall
    /\ pc = "idle"
    /\ \E r \in GraphResponses(nodes, edges, page, requested) :
          resp' = r @@ [page |-> page, requested |-> requested]
    /\ UNCHANGED <<nodes, edges, pc, queue, visited, max_depth, call, histVars>>

(* ----------------------- /query/execute_custom ------------------------ *)
\* A query text is a list of words; " " stands for white space around the text.
\* cypher.upper(), word by word
UpperWord(w) ==
    CASE w = "match" -> "MATCH"
      [] w = "detach" -> "DETACH"
      [] w = "delete" -> "DELETE"
      [] w = "return" -> "RETURN"
      [] OTHER -> w
UpperText(text) == [i \in 1..Len(text) |-> UpperWord(text[i])]

\* text.strip()
RECURSIVE StripLeft(_)
StripLeft(text) ==
    IF text # <<>> /\ Head(text) = " " THEN StripLeft(Tail(text)) ELSE text
RECURSIVE StripRight(_)
StripRight(text) ==
    IF text # <<>> /\ text[Len(text)] = " "
    THEN StripRight(SubSeq(text, 1, Len(text) - 1)) ELSE text
Strip(text) == StripRight(StripLeft(text))

\* line 308: the words a text may begin with
ReadOnlyKeywords == {"MATCH", "WITH", "RETURN", "OPTIONAL"}
\* lines 307-308: cypher_upper.startswith(('MATCH', 'WITH', 'RETURN', 'OPTIONAL'))
GuardAccepts(cypher) ==
    LET cypher_upper == Strip(UpperText(cypher))
    IN cypher_upper # <<>> /\ Head(cypher_upper) \in ReadOnlyKeywords

\* the texts requested: empty, blank, reads, deletions (one the guard's words begin,
\* one they do not, one in lower case behind white space) and a text that does not parse
CustomQueries ==
    {<<>>,
     <<" ">>,
     <<"MATCH", "(n)", "RETURN", "n">>,
     <<"RETURN", "1">>,
     <<"MATCH", "(n)", "DETACH", "DELETE", "n">>,
     <<" ", "match", "(n)", "detach", "delete", "n">>,
     <<"DELETE", "(n)", "DETACH", "DELETE", "n">>,
     <<"MATCH", "(n">>}

\* line 312: session.run(cypher) in an auto-commit transaction. Cypher keywords are
\* case-insensitive and white space around the text is ignored.
RunCypher(store, cypher) ==
    LET words == Strip(UpperText(cypher))
    IN IF words = <<"MATCH", "(n)", "DETACH", "DELETE", "n">>
       THEN [ok |-> TRUE, store |-> [nodes |-> <<>>, edges |-> EmptyBag]]
       ELSE IF words \in {<<"MATCH", "(n)", "RETURN", "n">>, <<"RETURN", "1">>}
       THEN [ok |-> TRUE, store |-> store]
       ELSE [ok |-> FALSE, store |-> store]

\* lines 298-319: GET /query/execute_custom?cypher=<cypher>, with the driver connected
execute_custom_query(cypher) ==
    /\ call = NoCall
    /\ pc = "idle"
    /\ \/ /\ cypher = <<>>
          /\ resp' = [status |-> 400, page |-> "", cypher |-> cypher, executed |-> FALSE]
          /\ UNCHANGED <<nodes, edges>>
       \/ /\ cypher # <<>>
          /\ ~GuardAccepts(cypher)
          /\ resp' = [status |-> 400, page |-> "", cypher |-> cypher, executed |-> FALSE]
          /\ UNCHANGED <<nodes, edges>>
       \/ /\ cypher # <<>>
          /\ GuardAccepts(cypher)
          /\ LET run == RunCypher([nodes |-> nodes, edges |-> edges], cypher)
             IN /\ nodes' = run.store.nodes
                /\ edges' = run.store.edges
                /\ resp' = [status |-> IF run.ok THEN 200 ELSE 400, page |-> "",
                            cypher |-> cypher, executed |-> TRUE]
    /\ UNCHANGED <<pc, queue, visited, max_depth, call, histVars>>

(* ----------------- get_graph_data as a function of the record --------- *)
\* ids a drawn candidate list starts at, and its greatest length
MaxStart == 8
MaxCandidates == 7
\* how far below 0 and above MaxLimit the requested limits go
LimitMargin == 12
RequestedLimits == (0 - LimitMargin)..(MaxLimit + LimitMargin)

DrawnNode(i) == [id |-> i, title |-> <<"page", i>>]
\* the nodes s, s+1, .., s+n-1
Segment(s, n) == [i \in 1..n |-> DrawnNode(s + i - 1)]
CandidateLists ==
    UNION {{Segment(s, n), <<None>> \o Segment(s, n)} : s \in 1..MaxStart, n \in 0..MaxCandidates}
ShortLists == {l \in CandidateLists : Len(l) <= 1 /\ \A i \in 1..Len(l) : l[i] = None \/ l[i].id <= 2}

\* a call of get_graph_data's body on a record with the center node 1
DrawnCall(q, o, n) ==
    [kind |-> "call", requested |-> q,
     result |-> [p |-> DrawnNode(1), outgoing_links |-> o, incoming_links |-> n]]

\* lines 56-60 and 73-99 applied to the drawn record
assemble ==
    /\ call # NoCall
    /\ resp = NoResponse
    /\ resp' = GraphPayload(call.result, call.requested)
                 @@ [page |-> call.result.p.title, requested |-> call.requested]
    /\ UNCHANGED <<nodes, edges, pc, queue, visited, max_depth, call, histVars>>

Init ==
    /\ nodes = <<>>
    /\ edges = EmptyBag
    /\ pc = "idle"
    /\ queue = <<>>
    /\ visited = {}
    /\ max_depth = 0
    /\ pendingAtStart = {}
    /\ resolvedAtStart = {}
    /\ fetchCount = [t \in Titles |-> 0]
    /\ mergeCount = [t \in Titles |-> 0]
    /\ last = NoIteration
    /\ everQueued = {}
    /\ call = NoCall
    /\ resp = NoResponse

Iterate ==
    \/ Skip
    \/ \E responses \in FetchResponses : FetchFailed(responses)
    \/ \E responses \in FetchResponses : Process(responses)
    \/ Finish

Next ==
    \/ \E start_pages \in SeqsUpTo(MaxSeeds), md \in 0..MaxDepthBound :
          \E pendingOrder \in Orderings(PendingTitles(nodes)) :
             Start(start_pages, md, pendingOrder)
    \/ Iterate
    \/ \E page \in Titles \cup {""} : get_graph_data(page, DefaultLimit)

Spec == Init /\ [][Next]_vars

\* the crawler and both endpoints of the web application
NextQuery ==
    \/ Next
    \/ \E cypher \in CustomQueries : execute_custom_query(cypher)

SpecQuery == Init /\ [][NextQuery]_vars

(* --------------- /graph on a page with many neighbours ---------------- *)
\* the number of outgoing, and of incoming, neighbours of the center
NeighbourCount == 20
\* the greatest id the drawn neighbour sets start at
MaxOffset == 12
CenterTitle == DrawnNode(1).title

\* a store whose node 1 links to the nodes so..so+NeighbourCount-1 and is linked to
\* from the nodes si..si+NeighbourCount-1 (node 1 may be among either)
InitNeighbours ==
    /\ \E so \in 1..MaxOffset, si \in 1..MaxOffset :
          /\ nodes = [i \in 1..(MaxOffset + NeighbourCount - 1) |->
                         [title |-> DrawnNode(i).title, url |-> <<"en", DrawnNode(i).title>>]]
          /\ edges = SetToBag(
                {[type |-> "LINKS_TO", from |-> 1, to |-> x] :
                     x \in so..(so + NeighbourCount - 1)}
                \cup {[type |-> "LINKS_TO", from |-> y, to |-> 1] :
                     y \in si..(si + NeighbourCount - 1)})
    /\ pc = "idle"
    /\ queue = <<>>
    /\ visited = {}
    /\ max_depth = 0
    /\ pendingAtStart = {}
    /\ resolvedAtStart = {}
    /\ fetchCount = [t \in Titles |-> 0]
    /\ mergeCount = [t \in Titles |-> 0]
    /\ last = NoIteration
    /\ everQueued = {}
    /\ call = NoCall
    /\ resp = NoResponse

\* GET /graph?page=<center>&limit=10
NextNeighbours == get_graph_data(CenterTitle, MinLimit)

SpecNeighbours == InitNeighbours /\ [][NextNeighbours]_vars

\* the crawler runs on: an iteration that can be taken is eventually taken
FairSpec == Spec /\ WF_vars(Iterate)

InitAssemble ==
    /\ nodes = <<>>
    /\ edges = EmptyBag
    /\ pc = "idle"
    /\ queue = <<>>
    /\ visited = {}
    /\ max_depth = 0
    /\ pendingAtStart = {}
    /\ resolvedAtStart = {}
    /\ fetchCount = [t \in Titles |-> 0]
    /\ mergeCount = [t \in Titles |-> 0]
    /\ last = NoIteration
    /\ everQueued = {}
    \* every requested limit on short candidate lists, and the limits around MinLimit
    \* on lists long enough to exceed them
    /\ \/ \E q \in RequestedLimits, o \in ShortLists, n \in ShortLists :
             call = DrawnCall(q, o, n)
       \/ \E q \in (MinLimit - 1)..(MinLimit + 1), o \in CandidateLists, n \in CandidateLists :
             call = DrawnCall(q, o, n)
    /\ resp = NoResponse

NextAssemble == assemble

SpecAssemble == InitAssemble /\ [][NextAssemble]_vars

(* ------- one crawl of a fixed wiki, starting from an empty store ------- *)
\* the call populate_database(driver, start_pages, max_depth) on a wiki whose page
\* t exists, has the canonical title t and links to the titles links[t]
CrawlCall(start_pages, md, links) ==
    [kind |-> "crawl", start_pages |-> start_pages, max_depth |-> md, links |-> links]

\* the responses of get_in_text_internal_links(title) on that wiki: the page is
\* found in the first language, or in the second after the first failed
FoundResponses(links, title) ==
    {r \in FetchResponses :
        LET page == get_in_text_internal_links(r)
        IN /\ page # NotFound
           /\ page.real_title = title
           /\ page.links = SortedLinks(links[title])}

InitComplete ==
    /\ nodes = <<>>
    /\ edges = EmptyBag
    /\ pc = "idle"
    /\ queue = <<>>
    /\ visited = {}
    /\ max_depth = 0
    /\ pendingAtStart = {}
    /\ resolvedAtStart = {}
    /\ fetchCount = [t \in Titles |-> 0]
    /\ mergeCount = [t \in Titles |-> 0]
    /\ last = NoIteration
    /\ everQueued = {}
    /\ \E start_pages \in SeqsUpTo(MaxSeeds), md \in 0..MaxDepthBound :
          \E links \in [Titles -> SUBSET Titles] :
             call = CrawlCall(start_pages, md, links)
    /\ resp = NoResponse

NextComplete ==
    \/ nodes = <<>> /\ Start(call.start_pages, call.max_depth, <<>>)
    \/ Skip
    \/ /\ pc = "running" /\ queue # <<>>
       /\ \E responses \in FoundResponses(call.links, Head(queue)[1]) : Process(responses)
    \/ Finish

SpecComplete == InitComplete /\ [][NextComplete]_vars

(* ------------------------------ claims -------------------------------- *)
\* the while loop has ended: the run terminates here
LoopEnded == pc = "running" /\ queue = <<>>

\* C1: in one run, at most one iteration fetches a title and at most one iteration
\* merges the page with a given canonical title.
C1_ProcessedAtMostOnce ==
    \A t \in Titles : fetchCount[t] <= 1 /\ mergeCount[t] <= 1

\* C2: every run terminates: once the loop is entered, the queue eventually is empty.
C2_Terminates == (pc = "running") ~> LoopEnded
\* a run ended after some title was fetched more than once and the depth bound
\* dropped an entry
C2_Witness ==
    /\ LoopEnded
    /\ \E t \in Titles : fetchCount[t] >= 2
    /\ last.op = "skip" /\ last.depth > max_depth

\* C3: when a run terminates, every page that was pending when it started has been
\* fetched.
C3_PendingFetched ==
    LoopEnded => \A t \in pendingAtStart : fetchCount[t] >= 1

\* C4: a run never fetches a title that was a resolved page when the run started.
C4_NoRefetchResolved ==
    \A t \in resolvedAtStart : fetchCount[t] = 0
\* a queued entry within the depth bound was skipped because its page was resolved
\* when the run started
C4_Witness ==
    /\ pc = "running"
    /\ last.op = "skip"
    /\ last.depth <= max_depth
    /\ last.title \in resolvedAtStart

\* C5: the store never holds two Page nodes with one title, nor two relationships of
\* one type between the same ordered pair of nodes.
C5_Idempotent ==
    /\ \A i \in 1..Len(nodes) : \A j \in 1..Len(nodes) :
          nodes[i].title = nodes[j].title => i = j
    /\ \A r \in BagToSet(edges) : CopiesIn(r, edges) = 1
\* a page that has an outgoing link was merged twice in one run, in a store that
\* held resolved pages when the run started
C5_Witness ==
    /\ resolvedAtStart # {}
    /\ \E t \in Titles :
          /\ mergeCount[t] >= 2
          /\ \E r \in BagToSet(edges) :
                r.type = "LINKS_TO" /\ r.from \in MatchPage(nodes, t)

\* C6: an iteration whose fetch fails changes neither visited nor the store, adds
\* nothing to the queue (it only pops its entry), and leaves the loop running.
C6_FailedFetchLocal ==
    [][(last'.op = "failed" /\ fetchCount' # fetchCount) =>
          /\ visited' = visited
          /\ nodes' = nodes
          /\ edges' = edges
          /\ queue' = Tail(queue)
          /\ pc' = "running"]_vars
\* every title was fetched, every fetch failed, and the loop ended with an empty
\* queue and an empty store
C6_Witness ==
    /\ LoopEnded
    /\ last.op = "failed"
    /\ nodes = <<>>
    /\ \A t \in Titles : fetchCount[t] >= 1

\* the ids of the nodes of a response
NodeIds(r) == {r.nodes[i].id : i \in 1..Len(r.nodes)}
\* the ids a record's candidate lists and center name
CandidateIds(l) == {l[i].id : i \in {j \in 1..Len(l) : l[j] # None}}

\* C7: in every graph returned, each edge's from and to are ids of nodes of the
\* graph, node ids are pairwise distinct, and there are at most limit nodes.
C7_GraphWellFormed ==
    resp.status = 200 =>
        /\ \A k \in 1..Len(resp.edges) :
              resp.edges[k].from \in NodeIds(resp) /\ resp.edges[k].to \in NodeIds(resp)
        /\ \A i \in 1..Len(resp.nodes) : \A j \in 1..Len(resp.nodes) :
              resp.nodes[i].id = resp.nodes[j].id => i = j
        /\ Len(resp.nodes) <= resp.limit
\* a graph cut down to the limit, from lists with a None entry, with the center
\* among the outgoing candidates and a node in both lists
C7_Witness ==
    /\ call # NoCall
    /\ resp.status = 200
    /\ Len(resp.nodes) = resp.limit
    /\ LET out == call.result.outgoing_links
           inc == call.result.incoming_links
       IN /\ Cardinality(CandidateIds(out) \cup CandidateIds(inc) \cup {call.result.p.id})
                > resp.limit
          /\ None \in Range(out)
          /\ call.result.p.id \in CandidateIds(out)
          /\ CandidateIds(out) \cap CandidateIds(inc) # {}

\* C8: the limit used is the requested limit clamped into [10, 200]; the outgoing
\* budget is floor(limit / 2), the budgets are >= 0 and 1 + outgoing + incoming = limit;
\* limit 10 gives 5 and 4.
C8_LinkBudget ==
    resp.status = 200 =>
        /\ resp.limit >= 10 /\ resp.limit <= 200
        /\ (resp.requested >= 10 /\ resp.requested <= 200) => resp.limit = resp.requested
        /\ resp.requested < 10 => resp.limit = 10
        /\ resp.requested > 200 => resp.limit = 200
        /\ 2 * resp.outgoing_limit <= resp.limit
        /\ resp.limit <= 2 * resp.outgoing_limit + 1
        /\ resp.outgoing_limit >= 0 /\ resp.incoming_limit >= 0
        /\ 1 + resp.outgoing_limit + resp.incoming_limit = resp.limit
        /\ resp.limit = 10 => (resp.outgoing_limit = 5 /\ resp.incoming_limit = 4)
\* a negative requested limit was clamped to 10 and split into 5 and 4
C8_Witness ==
    /\ call # NoCall
    /\ resp.status = 200
    /\ resp.requested < 0
    /\ resp.limit = 10 /\ resp.outgoing_limit = 5 /\ resp.incoming_limit = 4

\* the last step served a /graph request for a page that is pending in the store
PendingRequested == resp.status # 0 /\ resp.page \in PendingTitles(nodes)

\* C9 as stated: a request for a pending title is answered 404.
C9_PendingIs404 == PendingRequested => resp.status = 404
\* C9 as amended: a request for a pending title is answered 200 with a graph whose
\* first node is that page, in group 1.
C9_PendingIsServed ==
    PendingRequested =>
        /\ resp.status = 200
        /\ resp.nodes[1].label = resp.page
        /\ resp.nodes[1].group = 1
        /\ resp.nodes[1].id \in MatchPage(nodes, resp.page)
\* a pending page was requested and came back with the page that links to it
C9_Witness ==
    /\ PendingRequested
    /\ resp.status = 200
    /\ \E i \in 1..Len(resp.nodes) : resp.nodes[i].group = 3

\* C10: a request for a title that no Page node has is answered 404.
C10_MissingIs404 ==
    (resp.status # 0 /\ resp.page # "" /\ MatchPage(nodes, resp.page) = {}) =>
        resp.status = 404
\* a title absent from a store that holds other pages was requested
C10_Witness ==
    /\ resp.status = 404
    /\ nodes # <<>>
    /\ MatchPage(nodes, resp.page) = {}

\* C11: no request to a query endpoint changes the pages or the relationships of
\* the store: the store after the request is the store before it.
C11_QueriesReadOnly ==
    [][resp'.status # 0 => (nodes' = nodes /\ edges' = edges)]_vars

\* the positions of the response's nodes with id x
NodesWithId(r, x) == {i \in 1..Len(r.nodes) : r.nodes[i].id = x}

\* C12: a node in both candidate lists is in the graph once, with group 2, and has
\* an edge from the center and an edge to the center; a candidate that is the center
\* is not added again, the center keeps group 1, and its edge is in the graph.
C12_DedupFirstWins ==
    (call # NoCall /\ resp.status = 200) =>
        LET c == call.result.p.id
            out == CandidateIds(call.result.outgoing_links)
            inc == CandidateIds(call.result.incoming_links)
        IN /\ \A x \in (out \cap inc) \ {c} :
                 /\ Cardinality(NodesWithId(resp, x)) = 1
                 /\ \A i \in NodesWithId(resp, x) : resp.nodes[i].group = 2
                 /\ [from |-> c, to |-> x] \in Range(resp.edges)
                 /\ [from |-> x, to |-> c] \in Range(resp.edges)
           /\ c \in (out \cup inc) =>
                 /\ NodesWithId(resp, c) = {1}
                 /\ resp.nodes[1].group = 1
                 /\ [from |-> c, to |-> c] \in Range(resp.edges)
\* the center is among the outgoing candidates, and another node is in both lists
C12_Witness ==
    /\ call # NoCall
    /\ resp.status = 200
    /\ call.result.p.id \in CandidateIds(call.result.outgoing_links)
    /\ (CandidateIds(call.result.outgoing_links) \cap CandidateIds(call.result.incoming_links))
          \ {call.result.p.id} # {}

\* the last step served /graph for limit 10 on a center (node 1) with NeighbourCount
\* outgoing and NeighbourCount incoming neighbours
ManyNeighboursServed ==
    /\ resp.status = 200
    /\ resp.limit = 10
    /\ Cardinality(OutgoingOf(edges, 1)) = NeighbourCount
    /\ Cardinality(IncomingOf(edges, 1)) = NeighbourCount
\* the nodes of the response in a group
InGroup(r, g) == {i \in 1..Len(r.nodes) : r.nodes[i].group = g}
\* the neighbours the response's edges name
EdgeTargets(r, c) == {r.edges[k].to : k \in {j \in 1..Len(r.edges) : r.edges[j].from = c}}
EdgeSources(r, c) == {r.edges[k].from : k \in {j \in 1..Len(r.edges) : r.edges[j].to = c}}
EdgesInGraph(r) ==
    \A k \in 1..Len(r.edges) : r.edges[k].from \in NodeIds(r) /\ r.edges[k].to \in NodeIds(r)

\* C13 as stated: the graph has exactly 10 nodes, the center, 5 outgoing and 4
\* incoming neighbours, and every edge references only those ids.
C13_ExactlyTen ==
    ManyNeighboursServed =>
        /\ Len(resp.nodes) = 10
        /\ Cardinality(InGroup(resp, 1)) = 1
        /\ Cardinality(InGroup(resp, 2)) = 5
        /\ Cardinality(InGroup(resp, 3)) = 4
        /\ EdgesInGraph(resp)
\* C13 as amended: the graph has 5 edges from the center and 4 to it and at most 10
\* nodes, one per distinct page among the center and the edges' other ends; it has
\* exactly 10 nodes (1 + 5 + 4 by group) when no returned neighbour is the center or
\* is returned in both directions; every edge references only ids of the graph.
C13_AtMostTen ==
    ManyNeighboursServed =>
        LET outs == EdgeTargets(resp, 1)
            ins == EdgeSources(resp, 1)
        IN /\ Len(resp.edges) = 9
           /\ Cardinality({k \in 1..Len(resp.edges) : resp.edges[k].from = 1}) >= 5
           /\ Cardinality({k \in 1..Len(resp.edges) : resp.edges[k].to = 1}) >= 4
           /\ Len(resp.nodes) = Cardinality({1} \cup outs \cup ins)
           /\ Len(resp.nodes) <= 10
           /\ Cardinality(InGroup(resp, 1)) = 1
           /\ (outs \cap ins = {} /\ 1 \notin outs \cup ins) =>
                 /\ Len(resp.nodes) = 10
                 /\ Cardinality(InGroup(resp, 2)) = 5
                 /\ Cardinality(InGroup(resp, 3)) = 4
           /\ EdgesInGraph(resp)
\* a center with 20 and 20 neighbours was served a graph of fewer than 10 nodes
C13_Witness ==
    /\ ManyNeighboursServed
    /\ Len(resp.nodes) < 10

\* a step of the while loop that pops an entry
PopStep == pc = "running" /\ pc' = "running" /\ queue' # queue

\* C14: the loop pops the head of the queue and appends behind the entries that
\* wait (FIFO), and the depths of the entries popped in a run never decrease.
C14_BreadthFirst ==
    [][PopStep =>
          /\ Len(queue') >= Len(queue) - 1
          /\ SubSeq(queue', 1, Len(queue) - 1) = Tail(queue)
          /\ last'.title = Head(queue)[1]
          /\ last'.depth = Head(queue)[2]
          /\ last.op # "none" => last'.depth >= last.depth]_vars

\* a step of the while loop
LoopStep == pc = "running" /\ pc' = "running"

\* C15: within a run a title enters visited only after it has been in the queue;
\* a visited title is never removed from visited and never fetched again.
C15_TitleLifecycle ==
    [][LoopStep =>
          /\ visited \subseteq visited'
          /\ \A t \in visited' \ visited : t \in everQueued
          /\ \A t \in Titles : fetchCount'[t] > fetchCount[t] => t \notin visited]_vars

\* C15 as the code has it: the title that enters visited is the canonical title
\* returned by the fetch of a title that has been in the queue (that title, or a
\* title it redirects from); a visited title is never removed and never fetched.
C15_CanonicalLifecycle ==
    [][LoopStep =>
          /\ visited \subseteq visited'
          /\ \A t \in visited' \ visited :
                /\ last'.op = "processed"
                /\ last'.title = Head(queue)[1]
                /\ last'.title \in everQueued
                /\ mergeCount'[t] = mergeCount[t] + 1
          /\ \A t \in Titles : fetchCount'[t] > fetchCount[t] => t \notin visited]_vars

\* a title is visited in this run although it has never been in the queue
C15_Witness ==
    /\ pc = "running"
    /\ \E t \in visited : t \notin everQueued /\ t \notin resolvedAtStart

\* C16: an entry whose depth exceeds max_depth is dropped with no fetch, no store
\* write and no enqueue; every fetch happens at a depth in 0..max_depth.
C16_DepthBound ==
    [][LoopStep =>
          LET depth == Head(queue)[2]
          IN /\ depth > max_depth =>
                   /\ queue' = Tail(queue)
                   /\ fetchCount' = fetchCount
                   /\ nodes' = nodes /\ edges' = edges
                   /\ visited' = visited
             /\ fetchCount' # fetchCount => depth \in 0..max_depth]_vars

\* an entry deeper than max_depth, of a title that is not visited, has been dropped
C16_Witness ==
    /\ pc = "running"
    /\ last.op = "skip"
    /\ last.depth > max_depth
    /\ last.title \notin visited

\* there is a LINKS_TO edge from a node titled src to a node titled dst
HasLink(ns, es, src, dst) ==
    \E i \in MatchPage(ns, src), j \in MatchPage(ns, dst) :
       BagIn([type |-> "LINKS_TO", from |-> i, to |-> j], es)

\* C17: after an iteration that fetched canonical title c with links L, every l
\* in L has a Page node and an edge c -> l, enqueued or not; the entries appended
\* to the queue are <<l, depth + 1>> for exactly the l in L that are not visited.
C17_EdgesIndependentOfAdmission ==
    [][(LoopStep /\ last'.op = "processed") =>
          LET c == last'.real_title
              L == Range(last'.links)
              appended == SubSeq(queue', Len(queue), Len(queue'))
          IN /\ \A l \in L : MatchPage(nodes', l) # {}
             /\ \A l \in L : HasLink(nodes', edges', c, l)
             /\ SubSeq(queue', 1, Len(queue) - 1) = Tail(queue)
             /\ Range(appended) = {<<l, last'.depth + 1>> : l \in L \ visited'}
             /\ Len(appended) = Cardinality(L \ visited')]_vars

\* an iteration has linked the page to a visited title without enqueuing it, and
\* to an unvisited title that it enqueued
C17_Witness ==
    /\ pc = "running"
    /\ last.op = "processed"
    /\ \E l \in Range(last.links) :
          /\ l \in visited
          /\ HasLink(nodes, edges, last.real_title, l)
          /\ <<l, last.depth + 1>> \notin Range(queue)
    /\ \E l \in Range(last.links) :
          /\ l \notin visited
          /\ HasLink(nodes, edges, last.real_title, l)
          /\ queue # <<>> /\ queue[Len(queue)] = <<l, last.depth + 1>>

\* no node and no edge of the store is removed by the step
NothingRemoved ==
    /\ Len(nodes') >= Len(nodes)
    /\ \A i \in 1..Len(nodes) : nodes'[i].title = nodes[i].title
    /\ edges \sqsubseteq edges'

\* C18: no step removes a Page node or an edge, and an existing page changes only
\* from pending (url is null) to resolved (url set): a resolved page stays as it is.
C18_OnlyPendingToResolved ==
    [][/\ NothingRemoved
       /\ \A i \in 1..Len(nodes) :
             \/ nodes'[i] = nodes[i]
             \/ nodes[i].url = Null /\ nodes'[i].url # Null]_vars

\* C18 as the code has it: no step removes a Page node or an edge, and a resolved
\* page never becomes pending again; its url may be overwritten by a later fetch.
C18_LifecycleMonotone ==
    [][/\ NothingRemoved
       /\ \A i \in 1..Len(nodes) : nodes[i].url # Null => nodes'[i].url # Null]_vars

\* a page that was pending when the run started has been resolved by the run
C18_Witness ==
    /\ pc = "running"
    /\ pendingAtStart \cap ResolvedTitles(nodes) # {}

\* the LINKS_TO edges of the store
LinksTo == {e \in BagToSet(edges) : e.type = "LINKS_TO"}

\* C19: during a run every visited title is a resolved page of the store, and
\* every LINKS_TO edge has a resolved page as its source.
C19_VisitedAreResolved ==
    pc = "running" =>
       /\ visited \subseteq ResolvedTitles(nodes)
       /\ \A e \in LinksTo : nodes[e.from].url # Null

\* the run has marked a title visited that was not resolved when it started, and
\* has linked a page to a page that is still pending
C19_Witness ==
    /\ pc = "running"
    /\ visited \ resolvedAtStart # {}
    /\ \E e \in LinksTo : nodes[e.to].url = Null

\* the titles at most k link hops from a title of S
RECURSIVE Within(_, _, _)
Within(links, S, k) ==
    IF k = 0 THEN S
    ELSE LET R == Within(links, S, k - 1)
         IN R \cup UNION {links[t] : t \in R}

\* C20: from an empty store, on a wiki that finds every title under its own name,
\* when the run terminates the resolved pages are the titles at most max_depth hops
\* from a seed and the pending pages are the titles at max_depth + 1 hops.
C20_BreadthFirstComplete ==
    (LoopEnded /\ call.kind = "crawl") =>
       LET seeds == Range(call.start_pages)
       IN /\ ResolvedTitles(nodes) = Within(call.links, seeds, max_depth)
          /\ PendingTitles(nodes) = Within(call.links, seeds, max_depth + 1)
                                       \ Within(call.links, seeds, max_depth)

\* a run has ended with its seeds resolved and a page left pending behind the
\* depth bound
C20_Witness ==
    /\ LoopEnded
    /\ call.kind = "crawl"
    /\ max_depth = call.max_depth
    /\ ResolvedTitles(nodes) # {}
    /\ PendingTitles(nodes) # {}

====
